---- MODULE Spec2Model ----
(***************************************************************************)
(* Model of the CoreSky daily check-in bot (src/index.js).                 *)
(*                                                                         *)
(* The program is one Node.js event loop.  Every action below is one turn  *)
(* of that loop: the code that runs from the moment a timer fires or an    *)
(* HTTP response arrives up to the next await of a timer or of a request.  *)
(* One invocation of performCheckIn is a record of task, indexed by the    *)
(* 1-based position of the account in the batch (the code's i + 1).        *)
(***************************************************************************)
EXTENDS Integers, Sequences, FiniteSets, TLC

(* ----------------------------- bounds --------------------------------- *)
\* largest number of lines (blank ones included) of pk.txt and of proxy.txt
MaxLines == 2

(* ------------------------ program constants --------------------------- *)
\* a retry budget one short
MaxRetriesShort == 3 - 1

MAX_RETRIES == 3
INTER_ACCOUNT_DELAY == 5000

\* 24.5 * 60 * 60 * 1000
NEXT_RUN == 88200000
HTTP_OK == 200

(* ------------------------------ inputs -------------------------------- *)
Steps == {"login", "sign", "score"}
Keys == {"k1", "bad"}
Proxies == {"p1", "notaurl"}
Blanks == {"", " "}
Tokens == {"t1", "t2"}
SignFlags == {0, 1}
SignDays == {3, 7}
Scores == {0, 1234}
\* the value of the code field of a response body
Codes == {HTTP_OK, 500}
Missing == <<"ENOENT">>

SeqsUpTo(S, n) == UNION {[1..k -> S] : k \in 0..n}

\* what fs.readFileSync(...).split('\n') can give, or the read error
FileContents(S) == SeqsUpTo(S \cup Blanks, MaxLines) \cup {Missing}

(* --------------------------- pure helpers ----------------------------- *)
\* String.prototype.trim on the lines of the input universe
Trim(line) == IF line \in Blanks THEN "" ELSE line

NonBlank(line) == Trim(line) # ""

\* the lines returned without dropping the blank ones
readLinesUnfiltered(content) ==
  IF content = Missing THEN <<>> ELSE content

readLines(content) ==
  IF content = Missing THEN <<>> ELSE SelectSeq(content, NonBlank)

Min(a, b) == IF a < b THEN a ELSE b

\* a linear instead of an exponential backoff
BackoffDelayLinear(nextRetry) == nextRetry * 2000

\* Math.pow(2, nextRetry) * 1000
BackoffDelay(nextRetry) == (2 ^ nextRetry) * 1000

\* new ethers.Wallet(privateKey) succeeds
ValidKey(k) == k \in {"k1", "k2"}

\* ethers.getAddress(wallet.address): the checksummed address of a key
AddressOf(k) == IF k = "k1" THEN "0xAb1" ELSE IF k = "k2" THEN "0xCd2" ELSE "unknown"

\* address.toLowerCase()
ToLowerCase(a) == IF a = "0xAb1" THEN "0xab1" ELSE IF a = "0xCd2" THEN "0xcd2" ELSE a

SignatureOf(k) == <<"sig", k>>

\* the characters of a line of pk.txt
KeyText(k) ==
  IF k = "k1" THEN <<"0", "x", "a", "1", "b", "2", "c", "3", "d", "4", "e", "5">>
  ELSE IF k = "bad" THEN <<"0", "x", "z", "9">>
  ELSE <<>>

\* String.prototype.substring(from, to): arguments clamped to 0..length,
\* swapped when from > to
Clamp(n, len) == IF n < 0 THEN 0 ELSE IF n > len THEN len ELSE n

Substring(str, from, to) ==
  LET f == Clamp(from, Len(str))
      e == Clamp(to, Len(str))
  IN IF f <= e THEN SubSeq(str, f + 1, e) ELSE SubSeq(str, e + 1, f)

\* privateKey.substring(0, 6) + '...' + privateKey.substring(privateKey.length - 4)
MaskKey(str) ==
  Substring(str, 0, 6) \o <<"...">> \o Substring(str, Len(str) - 4, Len(str))

\* a generator that swallows the key error instead of throwing
generateSignatureLenient(k) ==
  [ok |-> TRUE, address |-> AddressOf(k), signature |-> SignatureOf(k),
   error |-> <<>>]

generateSignature(k) ==
  IF ValidKey(k)
  THEN [ok |-> TRUE, address |-> AddressOf(k), signature |-> SignatureOf(k),
        error |-> <<>>]
  ELSE [ok |-> FALSE, address |-> "unknown", signature |-> <<>>,
        error |-> <<"Error generating signature: ", "invalid private key">>]

\* new HttpsProxyAgent(proxy) succeeds
ValidProxy(proxy) == proxy \in {"p1", "p2"}

\* a client that keeps the proxy string whatever the agent constructor did
createAxiosInstanceNoFallback(proxy) == [agent |-> proxy, token |-> "none"]

\* the client of axios.create(config): its proxy agent ("direct" when
\* config.httpsAgent is not set) and its default token header
createAxiosInstance(proxy) ==
  [agent |-> IF proxy # "" /\ ValidProxy(proxy) THEN proxy ELSE "direct",
   token |-> "none"]

\* createAxiosInstance, catch block: the entry logged for an invalid proxy
ProxyErrors(proxy) ==
  IF proxy # "" /\ ~ValidProxy(proxy)
  THEN {<<"error", "Invalid proxy format", proxy>>}
  ELSE {}

NoApi == [agent |-> "none", token |-> "none"]

\* the token never attached to the client
SetTokenHeaderDropped(api, token) == api

\* api.defaults.headers.common['token'] = token
SetTokenHeader(api, token) == [api EXCEPT !.token = token]

(* ----------------------- remote responses ----------------------------- *)
\* net = TRUE: api.post rejects (network error, timeout, HTTP error status)
NetError == [net |-> TRUE, code |-> 0, message |-> "timeout", hasDebug |-> FALSE,
             token |-> "none", isSign |-> 0, signDay |-> 0, score |-> 0]

Body(c, d, tk, sg, sd, sc) ==
  [net |-> FALSE, code |-> c, message |-> "denied", hasDebug |-> d,
   token |-> tk, isSign |-> sg, signDay |-> sd, score |-> sc]

LoginResponses ==
  {NetError} \cup {Body(c, FALSE, "none", 0, 0, 0) : c \in Codes}
             \cup {Body(c, TRUE, tk, 0, 0, 0) : c \in Codes, tk \in Tokens}

SignResponses ==
  {NetError} \cup {Body(c, FALSE, "none", 0, 0, 0) : c \in Codes}
             \cup {Body(HTTP_OK, TRUE, "none", sg, sd, 0) : sg \in SignFlags, sd \in SignDays}

ScoreResponses ==
  {NetError} \cup {Body(c, FALSE, "none", 0, 0, 0) : c \in Codes}
             \cup {Body(HTTP_OK, TRUE, "none", 0, 0, sc) : sc \in Scores}

\* the remote accepted the request and sent a complete answer
WellFormedOk(resp) == ~resp.net /\ resp.code = HTTP_OK /\ resp.hasDebug

\* the status check left out
RejectedNever(resp) == FALSE

\* if (response.data.code !== 200) throw ...
Rejected(resp) == resp.code # HTTP_OK

TypeErrorMsg == <<"Cannot read properties of undefined">>

(* ------------------------------ state --------------------------------- *)
VARIABLES
  mpc,          \* position of runSchedule/main
  privateKeys,  \* main: readLines(pk.txt)
  proxies,      \* main: readLines(proxy.txt)
  pairs,        \* main: Math.min(...)
  i,            \* main: loop index, 1-based
  task,         \* the invocations of performCheckIn, by account
  results,      \* history: what main received for each account, in order
  started,      \* history: the accounts performCheckIn was called for
  waits,        \* history: the inter-account waits of this run
  schedTimers,  \* pending runSchedule timers (their delays)
  escaped,      \* history: an error left main
  log,          \* the entries main, readLines and runSchedule logged in this run
  fileKind      \* history: what the two reads of this run found

vars == <<mpc, privateKeys, proxies, pairs, i, task, results, started, waits,
          schedTimers, escaped, log, fileKind>>

Idx == 1..MaxLines

Zero3 == [s \in Steps |-> 0]

NoReq == [step |-> "none", address |-> "none", signature |-> <<>>,
          token |-> "none", agent |-> "none"]

NoSign == [isSignedIn |-> FALSE, signDay |-> 0]

Pending == [success |-> FALSE, address |-> "", error |-> <<>>]

InitTask ==
  [pc |-> "idle", privateKey |-> "", proxy |-> "", retryCount |-> 0,
   api |-> NoApi, walletAddress |-> "unknown", signResult |-> NoSign,
   error |-> <<>>, timer |-> 0, result |-> Pending, req |-> NoReq,
   attempts |-> Zero3, reqs |-> Zero3, oks |-> Zero3, sigGens |-> 0,
   delays |-> [s \in Steps |-> <<>>], issued |-> "none", keyLogs |-> {},
   clients |-> 0, apiLogs |-> {},
   answers |-> [isSign |-> 0, signDay |-> 0, score |-> 0]]

(* ------------------- performCheckIn and its steps --------------------- *)
\* Each operator maps the record of one invocation to the record after the
\* code has run up to its next await.

\* the error a step rethrows once retryCount = MAX_RETRIES: throw error
Propagated(err) == err

\* a catch block that reports the address as it stands
performCheckInCatchAsIs(t, err) ==
  [t EXCEPT !.pc = "returned", !.timer = 0,
            !.keyLogs = @ \cup {MaskKey(KeyText(t.privateKey))},
            !.result = [success |-> FALSE, address |-> t.walletAddress,
                        error |-> err]]

\* performCheckIn, catch block (lines 302-323)
performCheckInCatch(t, err) ==
  LET addr == IF t.walletAddress = "unknown" /\ ValidKey(t.privateKey)
              THEN AddressOf(t.privateKey)
              ELSE t.walletAddress
  IN [t EXCEPT !.pc = "returned", !.walletAddress = addr, !.timer = 0,
               !.keyLogs = @ \cup {MaskKey(KeyText(t.privateKey))},
               !.result = [success |-> FALSE, address |-> addr, error |-> err]]

\* login, catch block (lines 185-200)
loginCatch(t, err) ==
  IF t.retryCount < MAX_RETRIES
  THEN LET delay == BackoffDelay(t.retryCount + 1)
       IN [t EXCEPT !.pc = "login_backoff", !.error = err, !.timer = delay,
                    !.keyLogs = @ \cup {MaskKey(KeyText(t.privateKey))},
                    !.delays.login = Append(@, delay)]
  ELSE performCheckInCatch([t EXCEPT !.error = err],
                           Propagated(err))

\* dailySignIn, catch block (lines 220-233)
dailySignInCatch(t, err) ==
  IF t.retryCount < MAX_RETRIES
  THEN LET delay == BackoffDelay(t.retryCount + 1)
       IN [t EXCEPT !.pc = "sign_backoff", !.error = err, !.timer = delay,
                    !.delays.sign = Append(@, delay)]
  ELSE performCheckInCatch([t EXCEPT !.error = err],
                           Propagated(err))

\* checkScore, catch block (lines 258-271)
checkScoreCatch(t, err) ==
  IF t.retryCount < MAX_RETRIES
  THEN LET delay == BackoffDelay(t.retryCount + 1)
       IN [t EXCEPT !.pc = "score_backoff", !.error = err, !.timer = delay,
                    !.delays.score = Append(@, delay)]
  ELSE performCheckInCatch([t EXCEPT !.error = err],
                           Propagated(err))

\* login, try block up to the await of api.post (lines 157-175)
loginAttempt(t) ==
  LET sig == generateSignature(t.privateKey)
      t1  == [t EXCEPT !.attempts.login = @ + 1, !.sigGens = @ + 1,
                       !.error = <<>>, !.timer = 0]
  IN IF ~sig.ok
     THEN loginCatch(t1, sig.error)
     ELSE LET api == createAxiosInstance(t1.proxy)
          IN [t1 EXCEPT !.pc = "login_req", !.api = api, !.reqs.login = @ + 1,
                        !.clients = @ + 1,
                        !.apiLogs = @ \cup ProxyErrors(t1.proxy),
                        !.req = [step |-> "login", address |-> sig.address,
                                 signature |-> sig.signature,
                                 token |-> api.token, agent |-> api.agent]]

\* dailySignIn, try block up to the await of api.post (line 209)
signAttempt(t) ==
  [t EXCEPT !.pc = "sign_req", !.attempts.sign = @ + 1, !.reqs.sign = @ + 1,
            !.error = <<>>, !.timer = 0,
            !.req = [step |-> "sign", address |-> "none", signature |-> <<>>,
                     token |-> t.api.token, agent |-> t.api.agent]]

\* checkScore, try block up to the await of api.post (lines 242-248)
scoreAttempt(t) ==
  [t EXCEPT !.pc = "score_req", !.attempts.score = @ + 1, !.reqs.score = @ + 1,
            !.error = <<>>, !.timer = 0,
            !.req = [step |-> "score", address |-> ToLowerCase(t.walletAddress),
                     signature |-> <<>>,
                     token |-> t.api.token, agent |-> t.api.agent]]

\* login after its response, then performCheckIn up to dailySignIn's request
loginResume(t, resp) ==
  IF resp.net THEN loginCatch(t, <<resp.message>>)
  ELSE IF Rejected(resp)
  THEN loginCatch(t, <<"Login failed: ", resp.message>>)
  ELSE IF ~resp.hasDebug THEN loginCatch(t, TypeErrorMsg)
  ELSE signAttempt([t EXCEPT !.walletAddress = t.req.address,
                             !.api = SetTokenHeader(t.api, resp.token),
                             !.retryCount = 0])

\* every accepted sign-in reported as signed
IsSignedInAlways(isSign) == TRUE

\* signResponse.data.debug.isSign === 1
IsSignedIn(isSign) == isSign = 1

\* dailySignIn after its response, then performCheckIn up to checkScore's request
signResume(t, resp) ==
  IF resp.net THEN dailySignInCatch(t, <<resp.message>>)
  ELSE IF Rejected(resp)
  THEN dailySignInCatch(t, <<"Sign-in failed: ", resp.message>>)
  ELSE IF ~resp.hasDebug THEN dailySignInCatch(t, TypeErrorMsg)
  ELSE scoreAttempt([t EXCEPT !.signResult = [isSignedIn |-> IsSignedIn(resp.isSign),
                                              signDay |-> resp.signDay],
                              !.retryCount = 0])

\* checkScore after its response, then performCheckIn's return (lines 295-301)
scoreResume(t, resp) ==
  IF resp.net THEN checkScoreCatch(t, <<resp.message>>)
  ELSE IF Rejected(resp)
  THEN checkScoreCatch(t, <<"Score check failed: ", resp.message>>)
  ELSE IF ~resp.hasDebug THEN checkScoreCatch(t, TypeErrorMsg)
  ELSE [t EXCEPT !.pc = "returned",
                 !.result = [success |-> TRUE, address |-> t.walletAddress,
                             isSignedIn |-> t.signResult.isSignedIn,
                             signDay |-> t.signResult.signDay,
                             score |-> resp.score]]

\* history: the remote's view of the answer it gave to a step's request
Answered(t, step, resp) ==
  IF WellFormedOk(resp)
  THEN [t EXCEPT !.oks[step] = @ + 1,
                 !.issued = IF step = "login" THEN resp.token ELSE @,
                 !.answers = IF step = "sign"
                             THEN [@ EXCEPT !.isSign = resp.isSign,
                                            !.signDay = resp.signDay]
                             ELSE IF step = "score"
                             THEN [@ EXCEPT !.score = resp.score]
                             ELSE @]
  ELSE t

LoginResponse(a) ==
  /\ task[a].pc = "login_req"
  /\ \E resp \in LoginResponses :
       task' = [task EXCEPT ![a] = loginResume(Answered(@, "login", resp), resp)]
  /\ UNCHANGED <<mpc, privateKeys, proxies, pairs, i, results, started, waits,
                 schedTimers, escaped, log, fileKind>>

SignResponse(a) ==
  /\ task[a].pc = "sign_req"
  /\ \E resp \in SignResponses :
       task' = [task EXCEPT ![a] = signResume(Answered(@, "sign", resp), resp)]
  /\ UNCHANGED <<mpc, privateKeys, proxies, pairs, i, results, started, waits,
                 schedTimers, escaped, log, fileKind>>

ScoreResponse(a) ==
  /\ task[a].pc = "score_req"
  /\ \E resp \in ScoreResponses :
       task' = [task EXCEPT ![a] = scoreResume(Answered(@, "score", resp), resp)]
  /\ UNCHANGED <<mpc, privateKeys, proxies, pairs, i, results, started, waits,
                 schedTimers, escaped, log, fileKind>>

\* a backoff promise that is never resolved
LoginBackoffNeverFires(a) ==
  /\ task[a].pc = "login_backoff"
  /\ FALSE
  /\ UNCHANGED vars

\* a retry that only posts the login payload again with the client it has
LoginBackoffResend(a) ==
  /\ task[a].pc = "login_backoff"
  /\ task' = [task EXCEPT ![a] = [@ EXCEPT !.pc = "login_req",
                                            !.retryCount = @ + 1,
                                            !.attempts.login = @ + 1,
                                            !.reqs.login = @ + 1,
                                            !.error = <<>>, !.timer = 0]]
  /\ UNCHANGED <<mpc, privateKeys, proxies, pairs, i, results, started, waits,
                 schedTimers, escaped, log, fileKind>>

\* the setTimeout of a retry fires: return login(privateKey, proxy, nextRetry)
LoginBackoffFires(a) ==
  /\ task[a].pc = "login_backoff"
  /\ task' = [task EXCEPT ![a] = loginAttempt([@ EXCEPT !.retryCount = @ + 1])]
  /\ UNCHANGED <<mpc, privateKeys, proxies, pairs, i, results, started, waits,
                 schedTimers, escaped, log, fileKind>>

SignBackoffFires(a) ==
  /\ task[a].pc = "sign_backoff"
  /\ task' = [task EXCEPT ![a] = signAttempt([@ EXCEPT !.retryCount = @ + 1])]
  /\ UNCHANGED <<mpc, privateKeys, proxies, pairs, i, results, started, waits,
                 schedTimers, escaped, log, fileKind>>

\* a score retry that starts the whole check-in again from login
ScoreBackoffRestarts(a) ==
  /\ task[a].pc = "score_backoff"
  /\ task' = [task EXCEPT ![a] = loginAttempt([@ EXCEPT !.retryCount = @ + 1])]
  /\ UNCHANGED <<mpc, privateKeys, proxies, pairs, i, results, started, waits,
                 schedTimers, escaped, log, fileKind>>

ScoreBackoffFires(a) ==
  /\ task[a].pc = "score_backoff"
  /\ task' = [task EXCEPT ![a] = scoreAttempt([@ EXCEPT !.retryCount = @ + 1])]
  /\ UNCHANGED <<mpc, privateKeys, proxies, pairs, i, results, started, waits,
                 schedTimers, escaped, log, fileKind>>

(* --------------------------- main, runSchedule ------------------------ *)
\* the entries of the two lists that make account idx (1-based)
KeyIndex(idx) == idx

\* every account given the first proxy
ProxyIndexFirst(idx) == 1

ProxyIndex(idx) == idx

Pairs(n, m) == Min(n, m)

\* the delay taken after every account, the last included
InterDelayAlways(i0, p) == TRUE

\* if (i < pairs - 1), i being the code's 0-based index
InterDelayNeeded(i0, p) == i0 < p - 1

\* performCheckIn called without await
AwaitedAtOnce(a) == TRUE

\* await performCheckIn(...): main resumes once the invocation has settled
Awaited(a) == task[a].pc = "returned"

\* a failure record rethrown by main
HandleResultRethrow(r) == IF r.success THEN "logged_success" ELSE "rethrown"

\* main's try/catch around performCheckIn: both branches only log
HandleResult(r) == IF r.success THEN "logged_success" ELSE "logged_failure"

\* the call performCheckIn(privateKeys[i].trim(), proxies[i].trim())
CallPerformCheckIn(idx, keys, prx) ==
  loginAttempt([InitTask EXCEPT !.privateKey = Trim(keys[KeyIndex(idx)]),
                                !.proxy = Trim(prx[ProxyIndex(idx)])])

\* logger.info / logger.warn / logger.error entries of main and runSchedule
LogStart == <<"info", "Starting CoreSky daily check-in process">>
LogReadError(path) == <<"error", "Error reading file", path>>
LogNoKeys == <<"error", "No private keys found. Please check pk.txt">>
LogNoProxies == <<"error", "No proxies found. Please check proxy.txt">>
LogMismatch == <<"warn", "Number of private keys doesn't match number of proxies">>
LogProcessing(idx) == <<"info", "Processing account", idx>>
LogSuccess(idx) == <<"info", "Check-in successful for account", idx>>
LogFailed(idx) == <<"error", "Check-in failed for account", idx>>
LogWaiting == <<"info", "Waiting 5 seconds before next account...">>
LogCompleted == <<"info", "CoreSky daily check-in process completed">>
LogScheduleError == <<"error", "Schedule error">>
LogNextRun == <<"info", "Next run scheduled in 24.5 hours">>

\* readLines, catch block: the entry logged for an unreadable file
ReadErrors(content, path) ==
  IF content = Missing THEN <<LogReadError(path)>> ELSE <<>>

\* history: what a file held when readLines read it
KindOf(content) ==
  IF content = Missing THEN "missing"
  ELSE IF \A k \in 1..Len(content) : content[k] \in Blanks THEN "blank"
  ELSE "lines"

Unread == [pk |-> "unread", px |-> "unread"]

\* main from its first line to its first await, or to its early return
MainBegin ==
  \E pk \in FileContents(Keys), px \in FileContents(Proxies) :
    LET keys == readLines(pk)
        prx  == readLines(px)
        lg   == <<LogStart>> \o ReadErrors(pk, "pk.txt") \o ReadErrors(px, "proxy.txt")
    IN /\ results' = <<>>
       /\ waits' = <<>>
       /\ escaped' = FALSE
       /\ fileKind' = [pk |-> KindOf(pk), px |-> KindOf(px)]
       /\ IF Len(keys) = 0 \/ Len(prx) = 0
          THEN /\ mpc' = "done"
               /\ log' = Append(lg, IF Len(keys) = 0 THEN LogNoKeys ELSE LogNoProxies)
               /\ privateKeys' = keys
               /\ proxies' = prx
               /\ pairs' = 0
               /\ i' = 0
               /\ started' = <<>>
               /\ task' = task
          ELSE /\ mpc' = "await"
               /\ privateKeys' = keys
               /\ proxies' = prx
               /\ pairs' = Pairs(Len(keys), Len(prx))
               /\ i' = 1
               /\ started' = <<1>>
               /\ log' = (IF Len(keys) # Len(prx) THEN Append(lg, LogMismatch) ELSE lg)
                            \o <<LogProcessing(1)>>
               /\ task' = [task EXCEPT ![1] = CallPerformCheckIn(1, keys, prx)]

\* the startup call runSchedule() of line 418
Startup ==
  /\ mpc = "boot"
  /\ MainBegin
  /\ UNCHANGED schedTimers

\* the 24.5 h timer fires and calls runSchedule
SchedulerTimerFires ==
  /\ mpc = "timer"
  /\ schedTimers # <<>>
  /\ schedTimers' = Tail(schedTimers)
  /\ MainBegin

\* the loop of main from the test i < pairs to the next await, or to its end;
\* idx is the 1-based account the loop is about to process
LoopFrom(idx, lg) ==
  IF idx <= pairs
  THEN /\ mpc' = "await"
       /\ log' = Append(lg, LogProcessing(idx))
       /\ i' = idx
       /\ started' = Append(started, idx)
       /\ task' = [task EXCEPT
                     ![i] = IF @.pc = "returned" /\ idx # i THEN InitTask ELSE @,
                     ![idx] = CallPerformCheckIn(idx, privateKeys, proxies)]
  ELSE /\ mpc' = "done"
       /\ log' = Append(lg, LogCompleted)
       /\ i' = i
       /\ started' = started
       /\ task' = [task EXCEPT ![i] = IF @.pc = "returned" THEN InitTask ELSE @]

\* main resumes after await performCheckIn (lines 356-373)
MainResume ==
  /\ mpc = "await"
  /\ Awaited(i)
  /\ LET r == task[i].result
         outcome == HandleResult(r)
         lg == Append(log, IF outcome = "logged_success" THEN LogSuccess(i)
                           ELSE LogFailed(i))
     IN /\ results' = Append(results, [idx |-> i, success |-> r.success])
        /\ IF outcome = "rethrown"
           THEN /\ mpc' = "done"
                /\ log' = log
                /\ escaped' = TRUE
                /\ waits' = waits
                /\ task' = [task EXCEPT ![i] = IF @.pc = "returned" THEN InitTask ELSE @]
                /\ UNCHANGED <<i, started>>
           ELSE /\ escaped' = escaped
                /\ IF InterDelayNeeded(i - 1, pairs)
                   THEN /\ mpc' = "inter_wait"
                        /\ log' = Append(lg, LogWaiting)
                        /\ waits' = Append(waits, INTER_ACCOUNT_DELAY)
                        /\ task' = [task EXCEPT ![i] = IF @.pc = "returned" THEN InitTask ELSE @]
                        /\ UNCHANGED <<i, started>>
                   ELSE /\ waits' = waits
                        /\ LoopFrom(i + 1, lg)
  /\ UNCHANGED <<privateKeys, proxies, pairs, schedTimers, fileKind>>

\* the 5 s timer fires: i++ and the next iteration of the loop
InterDelayFires ==
  /\ mpc = "inter_wait"
  /\ LoopFrom(i + 1, log)
  /\ UNCHANGED <<privateKeys, proxies, pairs, results, waits, schedTimers, escaped,
                 fileKind>>

\* the next run armed only after a run that processed accounts
ScheduleNextUnlessAborted ==
  /\ mpc = "done"
  /\ mpc' = "timer"
  /\ schedTimers' = IF pairs = 0 THEN schedTimers ELSE Append(schedTimers, NEXT_RUN)
  /\ UNCHANGED <<privateKeys, proxies, pairs, i, task, results, started, waits,
                 escaped, log, fileKind>>

\* main() called without await: the timer armed while the run goes on
ScheduleNextNoAwait ==
  /\ \/ /\ mpc = "await"
        /\ schedTimers = <<>>
        /\ schedTimers' = <<NEXT_RUN>>
        /\ mpc' = mpc
     \/ /\ mpc = "done"
        /\ schedTimers' = schedTimers
        /\ mpc' = "timer"
  /\ UNCHANGED <<privateKeys, proxies, pairs, i, task, results, started, waits,
                 escaped, log, fileKind>>

\* runSchedule after await main(): arm the timer of the next run (lines 386-394)
ScheduleNext ==
  /\ mpc = "done"
  /\ mpc' = "timer"
  /\ schedTimers' = Append(schedTimers, NEXT_RUN)
  /\ privateKeys' = <<>>
  /\ proxies' = <<>>
  /\ pairs' = 0
  /\ i' = 0
  /\ results' = <<>>
  /\ started' = <<>>
  /\ waits' = <<>>
  /\ log' = Append(IF escaped THEN Append(log, LogScheduleError) ELSE log, LogNextRun)
  /\ fileKind' = Unread
  /\ UNCHANGED <<task, escaped>>

Init ==
  /\ mpc = "boot"
  /\ privateKeys = <<>>
  /\ proxies = <<>>
  /\ pairs = 0
  /\ i = 0
  /\ task = [a \in Idx |-> InitTask]
  /\ results = <<>>
  /\ started = <<>>
  /\ waits = <<>>
  /\ schedTimers = <<>>
  /\ escaped = FALSE
  /\ log = <<>>
  /\ fileKind = Unread

Next ==
  \/ Startup
  \/ SchedulerTimerFires
  \/ MainResume
  \/ InterDelayFires
  \/ ScheduleNext
  \/ \E a \in Idx : LoginResponse(a)
  \/ \E a \in Idx : SignResponse(a)
  \/ \E a \in Idx : ScoreResponse(a)
  \/ \E a \in Idx : LoginBackoffFires(a)
  \/ \E a \in Idx : SignBackoffFires(a)
  \/ \E a \in Idx : ScoreBackoffFires(a)

Spec == Init /\ [][Next]_vars

\* every armed timer fires and every request is answered or times out (30 s):
\* while some event is pending, the event loop handles one
Fairness == WF_vars(Next)

FairSpec == Spec /\ Fairness

TypeOK ==
  /\ mpc \in {"boot", "await", "inter_wait", "done", "timer"}
  /\ pairs \in 0..MaxLines
  /\ i \in 0..MaxLines

(* ============================== claims ================================ *)
Busy(t) == t.pc \notin {"idle", "returned"}

ReqPc(s) == IF s = "login" THEN "login_req"
            ELSE IF s = "sign" THEN "sign_req" ELSE "score_req"

WaitPc(s) == IF s = "login" THEN "login_backoff"
             ELSE IF s = "sign" THEN "sign_backoff" ELSE "score_backoff"

\* step s of invocation t has used all its attempts without one success
Exhausted(t, s) ==
  t.attempts[s] = 4 /\ t.oks[s] = 0 /\ t.pc \notin {ReqPc(s), WaitPc(s)}

BackoffTable == <<2000, 4000, 8000>>

IsPrefix(p, q) == Len(p) <= Len(q) /\ p = SubSeq(q, 1, Len(p))

TotalReqs(t) == t.reqs.login + t.reqs.sign + t.reqs.score

\* C1: when no login attempt of an account succeeds, login makes exactly 4
\* attempts separated by waits of 2000, 4000 and 8000 ms, performCheckIn then
\* returns success = false with the message of the last login failure, and
\* no sign-in or score request is ever sent for the account.
C1_LoginExhaustion ==
  \A a \in Idx :
    LET t == task[a] IN
    t.oks.login = 0 =>
      /\ t.reqs.sign = 0 /\ t.reqs.score = 0
      /\ IsPrefix(t.delays.login, BackoffTable)
      /\ t.pc = "returned" =>
           /\ t.attempts.login = 4
           /\ t.delays.login = BackoffTable
           /\ t.result.success = FALSE
           /\ t.result.error = t.error
           /\ t.error # <<>>

C1_Witness ==
  \E a \in Idx :
    /\ task[a].pc = "returned" /\ task[a].oks.login = 0
    /\ task[a].reqs.login = 4
    /\ task[a].result.error = <<"Login failed: ", "denied">>

\* C2: every step has its own budget: at most 4 attempts per step, the
\* k-th retry of a step comes after 2^k seconds, the retry counter of a step
\* starts at 0 whatever the earlier steps used, and at most 12 requests are
\* sent per account.
C2_RetryBudget ==
  \A a \in Idx :
    LET t == task[a] IN
    /\ \A s \in Steps :
         /\ t.attempts[s] <= 4
         /\ t.reqs[s] <= t.attempts[s]
         /\ IsPrefix(t.delays[s], BackoffTable)
         /\ Len(t.delays[s]) =
              IF t.pc = WaitPc(s) THEN t.attempts[s]
              ELSE IF t.attempts[s] = 0 THEN 0 ELSE t.attempts[s] - 1
         /\ t.pc \in {ReqPc(s), WaitPc(s)} => t.retryCount = t.attempts[s] - 1
         /\ t.pc = WaitPc(s) => t.timer = t.delays[s][Len(t.delays[s])]
    /\ TotalReqs(t) <= 12

C2_Witness ==
  \E a \in Idx :
    /\ TotalReqs(task[a]) = 12
    /\ task[a].delays.score = BackoffTable
    /\ task[a].delays.login = BackoffTable

\* C3: a malformed private key is never retried: signature generation runs
\* once for the account and no backoff delay is waited.
C3_MalformedKeyNotRetried ==
  \A a \in Idx :
    (task[a].pc # "idle" /\ ~ValidKey(task[a].privateKey)) =>
      /\ task[a].sigGens <= 1
      /\ task[a].delays.login = <<>>

\* C4: an account whose key fails signing ends with success = false and a
\* non-empty error, and no HTTP request is sent for it at any point.
C4_BadKeyNoRequest ==
  \A a \in Idx :
    LET t == task[a] IN
    (t.pc # "idle" /\ ~ValidKey(t.privateKey)) =>
      /\ TotalReqs(t) = 0
      /\ t.req = NoReq
      /\ t.pc \notin {"login_req", "sign_req", "score_req"}
      /\ t.pc = "returned" => (t.result.success = FALSE /\ t.result.error # <<>>)

C4_Witness ==
  \E a \in Idx :
    /\ task[a].pc = "returned" /\ ~ValidKey(task[a].privateKey)
    /\ task[a].sigGens = 4
    /\ task[a].result.success = FALSE

\* C5: no sign-in request before a successful login, no score request before
\* a successful sign-in, and once a step has failed all 4 attempts the
\* account is finished: no request of a later step is sent.
C5_StepOrder ==
  \A a \in Idx :
    LET t == task[a] IN
    /\ t.reqs.sign > 0 => t.oks.login >= 1
    /\ t.reqs.score > 0 => t.oks.sign >= 1
    /\ Exhausted(t, "login") => (t.pc = "returned" /\ t.reqs.sign = 0 /\ t.reqs.score = 0)
    /\ Exhausted(t, "sign") => (t.pc = "returned" /\ t.reqs.score = 0)
    /\ Exhausted(t, "score") => t.pc = "returned"

C5_Witness ==
  \E a \in Idx :
    /\ Exhausted(task[a], "sign")
    /\ task[a].oks.login = 1
    /\ task[a].reqs.sign = 4

\* C6: accounts are processed one at a time in file order: account a is in
\* progress only while main awaits it, after all accounts before it have
\* delivered their result, and never together with another account.
C6_OneAtATime ==
  /\ \A a, b \in Idx : (Busy(task[a]) /\ Busy(task[b])) => a = b
  /\ \A a \in Idx :
       task[a].pc # "idle" =>
         /\ mpc = "await" /\ i = a
         /\ Len(results) = a - 1
  /\ \A k \in 1..Len(started) : started[k] = k
  /\ \A k \in 1..Len(results) : results[k].idx = k
  /\ mpc \in {"inter_wait", "done", "timer", "boot"} =>
       \A a \in Idx : task[a].pc = "idle"

C6_Witness ==
  /\ i = 2 /\ Busy(task[2])
  /\ Len(results) = 1
  /\ task[1].pc = "idle"

\* C7: after a successful login every sign-in and score request of the
\* account carries the token of that login response in its token header.
C7_TokenHeader ==
  \A a \in Idx :
    task[a].req.step \in {"sign", "score"} =>
      /\ task[a].issued \in Tokens
      /\ task[a].req.token = task[a].issued

C7_Witness ==
  \E a \in Idx :
    /\ task[a].req.step = "score" /\ task[a].pc = "score_req"
    /\ task[a].attempts.score > 1 /\ task[a].attempts.sign > 1
    /\ task[a].req.token = "t2"

\* C8: exactly min(N, M) accounts are processed, each index once and in
\* order, key i with proxy i, and nothing beyond min(N, M) is used.
C8_Pairing ==
  LET P == Min(Len(privateKeys), Len(proxies)) IN
  /\ mpc \in {"await", "inter_wait", "done"} => pairs = P
  /\ Len(started) <= P
  /\ \A k \in 1..Len(started) : started[k] = k
  /\ \A k \in 1..Len(results) : results[k].idx = k
  /\ mpc = "done" => (Len(started) = P /\ Len(results) = P)
  /\ \A a \in Idx :
       task[a].pc # "idle" =>
         /\ a <= P
         /\ task[a].privateKey = Trim(privateKeys[a])
         /\ task[a].proxy = Trim(proxies[a])
         /\ task[a].req.step # "none" =>
              task[a].req.agent = IF ValidProxy(proxies[a]) THEN proxies[a] ELSE "direct"

C8_Witness ==
  /\ mpc = "done"
  /\ Len(privateKeys) = 2 /\ Len(proxies) = 1
  /\ Len(results) = 1

\* C9: a failed account never aborts the batch: the run ends only after all
\* accounts have been processed, and no error leaves main.
C9_BatchContinues ==
  /\ ~escaped
  /\ mpc = "done" => Len(results) = pairs
  /\ (mpc = "inter_wait" \/ mpc = "await") => Len(results) < pairs

C9_Witness ==
  /\ mpc = "done" /\ pairs = 2
  /\ Len(results) = 2
  /\ results[1].success = FALSE
  /\ results[2].success = TRUE

\* C10: a 5000 ms wait follows every account but the last, whatever the
\* account's outcome: P - 1 waits in a run of P accounts.
C10_InterAccountDelay ==
  /\ \A k \in 1..Len(waits) : waits[k] = 5000
  /\ mpc = "inter_wait" => (Len(waits) = Len(results) /\ Len(results) < pairs)
  /\ mpc = "await" => (Len(waits) = i - 1 /\ Len(results) = i - 1)
  /\ (mpc = "done" /\ pairs >= 1) => Len(waits) = pairs - 1
  /\ (mpc = "done" /\ pairs = 0) => waits = <<>>

C10_Witness ==
  /\ mpc = "done" /\ pairs = 2
  /\ waits = <<5000>>
  /\ results[1].success = FALSE

InLog(e) == \E k \in 1..Len(log) : log[k] = e

RunStarts == Startup \/ SchedulerTimerFires

\* C11: after every run of main, whatever its outcome, runSchedule arms
\* exactly one timer of 24.5 hours that calls runSchedule again, so a run
\* happens infinitely often.
C11_SchedulerChain ==
  /\ [](Len(schedTimers) <= 1)
  /\ [](mpc = "timer" <=> schedTimers # <<>>)
  /\ [](schedTimers # <<>> => schedTimers = <<24 * 60 * 60 * 1000 + 30 * 60 * 1000>>)
  /\ [][mpc = "done" => (mpc' = "timer" /\ Len(schedTimers') = 1)]_vars
  /\ []<><<RunStarts>>_vars

C11_Witness ==
  /\ mpc = "timer"
  /\ schedTimers = <<NEXT_RUN>>
  /\ InLog(LogFailed(1))
  /\ InLog(LogCompleted)

EmptyKind == {"missing", "blank"}

NoTaskTouched ==
  \A a \in Idx : task[a].pc = "idle" /\ task[a].sigGens = 0 /\ task[a].reqs = Zero3

\* C12: a missing, unreadable or blank pk.txt or proxy.txt reads as the
\* empty list; main then logs an error and returns before any account,
\* signature or request, and runSchedule still arms the next run, which
\* reads both files again.
C12_ConfigAbort ==
  /\ fileKind.pk \in EmptyKind => privateKeys = <<>>
  /\ fileKind.px \in EmptyKind => proxies = <<>>
  /\ fileKind.pk = "missing" => InLog(LogReadError("pk.txt"))
  /\ fileKind.px = "missing" => InLog(LogReadError("proxy.txt"))
  /\ (fileKind.pk \in EmptyKind \/ fileKind.px \in EmptyKind) =>
       /\ mpc = "done"
       /\ started = <<>> /\ results = <<>> /\ NoTaskTouched
       /\ log[Len(log)] = (IF fileKind.pk \in EmptyKind THEN LogNoKeys ELSE LogNoProxies)
       /\ ~InLog(LogProcessing(1))
  /\ (mpc = "timer" /\ (InLog(LogNoKeys) \/ InLog(LogNoProxies))) =>
       schedTimers = <<NEXT_RUN>>
  /\ mpc \in {"await", "inter_wait", "done"} =>
       (fileKind.pk # "unread" /\ fileKind.px # "unread")

C12_Witness ==
  /\ mpc = "timer"
  /\ schedTimers = <<NEXT_RUN>>
  /\ InLog(LogReadError("proxy.txt"))
  /\ InLog(LogNoProxies)
  /\ ~InLog(LogReadError("pk.txt"))

\* the first n and the last n characters of a string
FirstChars(str, n) == [k \in 1..Min(n, Len(str)) |-> str[k]]

LastChars(str, n) ==
  LET m == Min(n, Len(str)) IN [k \in 1..m |-> str[Len(str) - m + k]]

\* C13: every log entry that identifies a key shows its first 6 characters,
\* "...", and its last 4 characters, and some character of the key is shown
\* by no entry, whatever the length of the key.
C13_KeyMasked ==
  \A a \in Idx :
    LET key == KeyText(task[a].privateKey) IN
    \A e \in task[a].keyLogs :
      /\ e = FirstChars(key, 6) \o <<"...">> \o LastChars(key, 4)
      /\ \E p \in 1..Len(key) : p > 6 /\ p <= Len(key) - 4

\* for the keys longer than 10 characters the masking hides a character
C13_LongKeyMasked ==
  \A a \in Idx :
    LET key == KeyText(task[a].privateKey) IN
    \A e \in task[a].keyLogs :
      /\ e = FirstChars(key, 6) \o <<"...">> \o LastChars(key, 4)
      /\ Len(key) > 10 => \E p \in 1..Len(key) : p > 6 /\ p <= Len(key) - 4

\* C14: an invalid proxy URL does not fail the account: createAxiosInstance
\* logs the error and returns a client without proxy agent, and the login
\* request of the attempt is sent directly.
C14_ProxyFallback ==
  \A a \in Idx :
    LET t == task[a] IN
    (t.pc # "idle" /\ ~ValidProxy(t.proxy) /\ ValidKey(t.privateKey)) =>
      /\ t.reqs.login = t.attempts.login
      /\ t.clients = t.attempts.login
      /\ t.apiLogs = {<<"error", "Invalid proxy format", t.proxy>>}
      /\ t.api.agent = "direct"
      /\ t.req.agent = "direct"
      /\ t.pc = "returned" =>
           (t.result.success <=> (t.oks.login >= 1 /\ t.oks.sign >= 1 /\ t.oks.score >= 1))

C14_Witness ==
  \E a \in Idx :
    /\ task[a].proxy = "notaurl"
    /\ task[a].pc = "returned"
    /\ task[a].result.success
    /\ task[a].req.agent = "direct"

LastLog == IF log = <<>> THEN <<>> ELSE log[Len(log)]

\* an account in progress stops being in progress, and the only way out of
\* its login, sign-in or score states is the return of performCheckIn
AccountsTerminate ==
  /\ (\E a \in Idx : Busy(task[a])) ~> (\A a \in Idx : ~Busy(task[a]))
  /\ [][\A a \in Idx : Busy(task[a]) =>
           (Busy(task'[a]) \/ task'[a].pc = "returned")]_vars

RunsEnd == (mpc = "await" \/ mpc = "inter_wait") ~> (mpc = "done")

\* C15 as stated: with every request answered and every timer firing, each
\* account's processing reaches its success or failure record, and every
\* run of main ends and logs completion.
C15_Termination ==
  /\ AccountsTerminate
  /\ RunsEnd
  /\ [](mpc = "done" => LastLog = LogCompleted)

\* C15 as amended: each account's processing reaches its record and every
\* run of main ends; the run logs completion when it processed accounts and
\* ends on the error entry when a list was empty.
C15_TerminationAmended ==
  /\ AccountsTerminate
  /\ RunsEnd
  /\ [](mpc = "done" =>
          LastLog = (IF pairs > 0 THEN LogCompleted
                     ELSE IF privateKeys = <<>> THEN LogNoKeys ELSE LogNoProxies))

C15_Witness ==
  /\ mpc = "done" /\ pairs = 2
  /\ LastLog = LogCompleted
  /\ results[1].success = FALSE
  /\ results[2].success = TRUE

AllStepsOk(t) == t.oks.login >= 1 /\ t.oks.sign >= 1 /\ t.oks.score >= 1

\* C16: performCheckIn returns a success record exactly when each step got
\* a well-formed answer with code 200 within its attempts; the record has
\* isSignedIn = (isSign = 1) and the signDay and score of the answers; an
\* accepted sign-in with isSign # 1 is not retried and the score check runs.
C16_SuccessRecord ==
  \A a \in Idx :
    LET t == task[a] IN
    /\ t.pc = "returned" =>
         /\ t.result.success <=> AllStepsOk(t)
         /\ t.result.success =>
              /\ t.result.isSignedIn = (t.answers.isSign = 1)
              /\ t.result.signDay = t.answers.signDay
              /\ t.result.score = t.answers.score
    /\ t.oks.sign >= 1 =>
         /\ t.oks.sign = 1
         /\ t.pc \in {"score_req", "score_backoff", "returned"}
         /\ t.reqs.score >= 1

C16_Witness ==
  \E a \in Idx :
    /\ task[a].pc = "returned"
    /\ task[a].result.success
    /\ task[a].result.isSignedIn = FALSE
    /\ task[a].answers.isSign = 0
    /\ task[a].result.signDay = 7 /\ task[a].result.score = 1234
    /\ task[a].attempts.login > 1

\* C17: every login attempt, the first one and each retry, generates the
\* signature anew and builds a new client before its request: the
\* signature generations of an account equal its login attempts, the clients
\* built equal its login requests, and a new invocation starts from nothing.
C17_FreshIdentity ==
  \A a \in Idx :
    LET t == task[a] IN
    /\ t.sigGens = t.attempts.login
    /\ t.clients = t.reqs.login
    /\ ValidKey(t.privateKey) => t.reqs.login = t.attempts.login
    /\ t.req.step = "login" =>
         /\ t.req.address = AddressOf(t.privateKey)
         /\ t.req.signature = SignatureOf(t.privateKey)
         /\ t.req.token = "none"
    /\ t.pc = "idle" => (t.sigGens = 0 /\ t.clients = 0 /\ t.api = NoApi)

C17_Witness ==
  \E a \in Idx :
    /\ task[a].pc = "login_req"
    /\ task[a].attempts.login = 3
    /\ task[a].sigGens = 3
    /\ task[a].clients = 3

\* C18: performCheckIn always returns a record; a failure record carries the
\* wallet address of the key together with the last error message, and the
\* address is "unknown" only when the key is malformed.
C18_FailureAddress ==
  /\ ~escaped
  /\ \A a \in Idx :
       LET t == task[a] IN
       (t.pc = "returned" /\ ~t.result.success) =>
         /\ t.result.address =
              (IF ValidKey(t.privateKey) THEN AddressOf(t.privateKey) ELSE "unknown")
         /\ t.result.error = t.error
         /\ t.result.error # <<>>
         /\ \E s \in Steps : Exhausted(t, s)

C18_Witness ==
  \E a \in Idx :
    /\ task[a].pc = "returned"
    /\ Exhausted(task[a], "login")
    /\ task[a].reqs.login = 4
    /\ task[a].result.address = "0xAb1"

InRun == mpc \in {"await", "inter_wait", "done"}

\* C19: runs never overlap: the timer of the next run is armed only when
\* main has finished, at most one timer is pending and none while a run is
\* in progress, and a run starts only when that 24.5 hour timer fires.
C19_NoOverlap ==
  /\ [](Len(schedTimers) <= 1)
  /\ [](InRun => schedTimers = <<>>)
  /\ [](schedTimers # <<>> => (mpc = "timer" /\ \A a \in Idx : task[a].pc = "idle"))
  /\ [][(schedTimers' # schedTimers /\ schedTimers' # <<>>) =>
          (mpc = "done" /\ mpc' = "timer" /\ schedTimers' = <<NEXT_RUN>>)]_vars
  /\ [][(~InRun /\ InRun') =>
          (mpc = "boot" \/ (mpc = "timer" /\ schedTimers = <<NEXT_RUN>>
                            /\ schedTimers' = <<>>))]_vars

C19_Witness ==
  /\ mpc = "timer"
  /\ schedTimers = <<NEXT_RUN>>
  /\ InLog(LogSuccess(2))
  /\ LastLog = LogNextRun
  /\ \A a \in Idx : task[a].pc = "idle"

\* C20: a retry never goes back to an earlier step: at most one login and
\* one sign-in attempt succeed per invocation, no login request follows the
\* successful login and no sign-in request the successful sign-in, and a
\* score retry sends only the score request, with the same client and token.
C20_NoStepReplay ==
  /\ [](\A a \in Idx :
          /\ task[a].oks.login <= 1 /\ task[a].oks.sign <= 1
          /\ task[a].oks.login = 1 => task[a].pc \notin {"login_req", "login_backoff"}
          /\ task[a].oks.sign = 1 =>
               task[a].pc \notin {"login_req", "login_backoff", "sign_req", "sign_backoff"})
  /\ [][\A a \in Idx :
          (task[a].oks.login = 1 /\ task'[a].pc # "idle") =>
            /\ task'[a].reqs.login = task[a].reqs.login
            /\ task'[a].sigGens = task[a].sigGens
            /\ task'[a].clients = task[a].clients
            /\ task'[a].api = task[a].api
            /\ task'[a].oks.login = 1]_vars
  /\ [][\A a \in Idx :
          (task[a].oks.sign = 1 /\ task'[a].pc # "idle") =>
            /\ task'[a].reqs.sign = task[a].reqs.sign
            /\ task'[a].signResult = task[a].signResult]_vars
  /\ [][\A a \in Idx :
          (task[a].pc = "score_backoff" /\ task'[a].pc # "score_backoff") =>
            /\ task'[a].pc = "score_req"
            /\ task'[a].reqs.score = task[a].reqs.score + 1
            /\ task'[a].req.step = "score"
            /\ task'[a].req.token = task[a].issued
            /\ task'[a].req.agent = task[a].api.agent]_vars

C20_Witness ==
  \E a \in Idx :
    /\ task[a].pc = "score_req"
    /\ task[a].attempts.score = 3
    /\ task[a].reqs.login = 2 /\ task[a].reqs.sign = 2
    /\ task[a].oks.login = 1 /\ task[a].oks.sign = 1

====
